---- MODULE Spec2Model ----
(***************************************************************************)
(* Model of the App component of frontend/src/App.jsx: the React state of  *)
(* the upload / validate / submit / render workflow, its event handlers    *)
(* and the asynchronous continuations (FileReader callbacks, fetch and     *)
(* json promises) they leave pending.                                      *)
(*                                                                         *)
(* A nullable JavaScript value is an option: Null is the empty sequence    *)
(* and Some(x) the one-element sequence holding x.  A handler is one       *)
(* atomic step (JavaScript runs a callback to completion and React applies *)
(* the state updates of one callback together); an await is a step         *)
(* boundary.  Handlers are callable in every state, except that the submit *)
(* button is disabled while loading (line 282).  The value of the          *)
(* uncontrolled file input (fileInputRef, lines 159-161) is DOM state that *)
(* no handler reads and is not part of the model.                          *)
(***************************************************************************)
EXTENDS Integers, Sequences, FiniteSets, TLC

VARIABLES
    image,        \* useState(null), line 24: the accepted File
    preview,      \* useState(null), line 25: its data URL
    predictions,  \* useState([]),   line 26
    loading,      \* useState(false), line 27
    error,        \* useState(null), line 28
    success,      \* useState(null), line 29
    modelInfo,    \* useState(null), line 30
    isDragging,   \* useState(false), line 31
    reads,        \* FileReaders started by handleImageUpload, not yet done
    calls,        \* handleSubmit invocations suspended at an await
    health,       \* position of fetchModelInfo
    submits,      \* history: calls of handleSubmit made with an image stored
    requests,     \* history: POST /predict requests issued (line 121)
    selected,     \* history: the file accepted last, while reads are pending
                  \* and none has failed or been cut off by a reset
    last          \* history: the handler or continuation that ran last

vars == <<image, preview, predictions, loading, error, success, modelInfo,
          isDragging, reads, calls, health, submits, requests, selected,
          last>>

Null == <<>>
Some(x) == <<x>>
Get(o) == o[1]

\* ------------------------------------------------------------ bounds
\* preview FileReaders pending at once
MaxReads == 2
\* handleSubmit invocations the model lets be suspended at once
MaxCalls == 2
\* submissions (handleSubmit with an image stored) in one run
MaxSubmits == 2

\* ------------------------------------------------------------ files
validTypes ==
    {"image/jpeg", "image/png", "image/jpg", "image/bmp", "image/gif", "image/webp"}

MaxFileSize == 16 * 1024 * 1024

\* the declared MIME types and byte sizes files are drawn from
Types == validTypes \cup {"image/tiff", "text/plain", ""}
Sizes == {0, 1, 2097152, 16777215, 16777216, 16777217, 20971520}
AllFiles == [type : Types, size : Sizes]

File(t, s) == [type |-> t, size |-> s]

\* the files the user picks from in the full workflow
Files ==
    { File("image/png", 2097152), File("image/jpeg", 16777216),
      File("image/jpeg", 20971520), File("text/plain", 1) }

MsgInvalidType == "Please upload a valid image file (JPEG, PNG, WebP, GIF)"
MsgTooLarge == "File size too large. Maximum size is 16MB"
MsgNoImage == "Please select an image first"
MsgPredictionFailed == "Prediction failed"
MsgGeneric == "An error occurred during prediction"

\* the two checks in the other order: the size rule first
Validate_SizeFirst(file) ==
    IF file.size > MaxFileSize THEN "too-large"
    ELSE IF file.type \notin validTypes THEN "invalid-type"
    ELSE "accepted"

\* the two checks of handleImageUpload, in the order of the code
Validate(file) ==
    IF file.type \notin validTypes THEN "invalid-type"
    ELSE IF file.size > MaxFileSize THEN "too-large"
    ELSE "accepted"

\* FileReader.readAsDataURL: "data:<type>;base64,<bytes of the file>"
DataURL(file) == [scheme |-> "data", mime |-> file.type, payload |-> file]

\* ------------------------------------------------------------ service
\* a confidence is a percentage in thousandths (97345 is 97.345)
Salmon == [class_id |-> 1, species |-> "Salmon", confidence |-> 97345]
Trout == [class_id |-> 2, species |-> "Trout", confidence |-> 2655]
Top(p) == [species |-> p.species, confidence |-> p.confidence]

\* the confidences whose nearest double lies below the decimal written
\* (97.345 is 97.34499999999999886..., 2.655 is 2.65499999999999980...)
RoundsDown == {97345, 2655}

\* Number.prototype.toFixed(2), in hundredths: the nearest integer to the
\* exact value of the double times 100, the larger one on a tie
toFixed2(c) ==
    IF c % 10 > 5 \/ (c % 10 = 5 /\ c \notin RoundsDown)
    THEN c \div 10 + 1
    ELSE c \div 10

\* the template literal of lines 139-141
Summary(top) == [species |-> top.species, confidence |-> toFixed2(top.confidence)]

Body(s, p, t, e) == [success |-> s, predictions |-> p, top_prediction |-> t, error |-> e]

\* JSON bodies the service may answer with a 2xx status; a field the body
\* lacks is Null
Bodies ==
    { Body(Some(TRUE), <<Salmon, Trout>>, Some(Top(Salmon)), Null),
      Body(Some(TRUE), <<Trout, Salmon>>, Some(Top(Salmon)), Null),
      Body(Some(TRUE), <<Salmon, Trout>>, Some(Top(Trout)), Null),
      Body(Some(TRUE), <<>>, Some(Top(Salmon)), Null),
      Body(Some(TRUE), <<>>, Null, Null),
      Body(Some(TRUE), <<Salmon, Trout>>, Null, Null),
      Body(Some(FALSE), <<>>, Null, Some("too blurry")),
      Body(Some(FALSE), <<>>, Null, Some("")),
      Body(Some(FALSE), <<>>, Null, Null) }

NoBody == Body(Null, <<>>, Null, Null)

\* JSON bodies the service may answer with a non-2xx status
ErrorBodies ==
    { Body(Null, <<>>, Null, Some("server busy")),
      Body(Some(FALSE), <<>>, Null, Some("too blurry")),
      Body(Some(TRUE), <<Salmon, Trout>>, Some(Top(Salmon)), Null),
      NoBody }

\* a parsed response: response.ok and the data response.json() resolves with
Response(ok, body) == [ok |-> ok, body |-> body]
BodiesOf(ok) == IF ok THEN Bodies \cup {NoBody} ELSE ErrorBodies
Responses == {Response(TRUE, b) : b \in BodiesOf(TRUE)}
                 \cup {Response(FALSE, b) : b \in BodiesOf(FALSE)}

\* err.message of the rejections the runtime produces
MsgFetchRejected == "Failed to fetch"
MsgJsonRejected == "Unexpected token < in JSON at position 0"
MsgTypeError == "Cannot read properties of undefined (reading 'species')"

\* JavaScript a || b on an optional string: b when a is undefined or ""
OrElse(a, b) == IF a # Null /\ Get(a) # "" THEN Get(a) ELSE b

\* the throw of lines 133 and 144 without data.error
Interpret_DropsServerMessage(resp) ==
    LET data == resp.body IN
    IF resp.ok /\ data.success = Some(TRUE) /\ data.top_prediction # Null THEN
        [predictions |-> Some(data.predictions),
         success |-> Some(Summary(Get(data.top_prediction))),
         thrown |-> Null]
    ELSE IF resp.ok /\ data.success = Some(TRUE) THEN
        [predictions |-> Some(data.predictions), success |-> Null,
         thrown |-> Some(MsgTypeError)]
    ELSE
        [predictions |-> Null, success |-> Null,
         thrown |-> Some(MsgPredictionFailed)]

\* lines 132-145 on the parsed body: what the try block stores and whether it
\* throws (thrown is the err.message the catch block receives)
Interpret(resp) ==
    LET data == resp.body IN
    IF ~resp.ok THEN
        [predictions |-> Null, success |-> Null,
         thrown |-> Some(OrElse(data.error, MsgPredictionFailed))]
    ELSE IF data.success = Some(TRUE) THEN
        IF data.top_prediction = Null THEN
            [predictions |-> Some(data.predictions), success |-> Null,
             thrown |-> Some(MsgTypeError)]
        ELSE
            [predictions |-> Some(data.predictions),
             success |-> Some(Summary(Get(data.top_prediction))),
             thrown |-> Null]
    ELSE
        [predictions |-> Null, success |-> Null,
         thrown |-> Some(OrElse(data.error, MsgPredictionFailed))]

\* ------------------------------------------------------------ state
Step(op, file, resp) ==
    [op |-> op, file |-> file, resp |-> resp, rep |-> last.op = op]

Remove(seq, i) == SubSeq(seq, 1, i - 1) \o SubSeq(seq, i + 1, Len(seq))

Init ==
    /\ image = Null
    /\ preview = Null
    /\ predictions = <<>>
    /\ loading = FALSE
    /\ error = Null
    /\ success = Null
    /\ modelInfo = Null
    /\ isDragging = FALSE
    /\ reads = <<>>
    /\ calls = <<>>
    /\ health = "fetching"
    /\ submits = 0
    /\ requests = 0
    /\ selected = Null
    /\ last = [op |-> "mount", file |-> Null, resp |-> Null, rep |-> FALSE]

\* ------------------------------------------------------------ fetchModelInfo
HealthData == {"resnet50"}

\* line 40: fetch resolves, or rejects and the catch block logs it
HealthFetched(ok) ==
    /\ health = "fetching"
    /\ health' = IF ok THEN "parsing" ELSE "done"
    /\ UNCHANGED selected
    /\ last' = Step("HealthFetched", Null, Null)
    /\ UNCHANGED <<image, preview, predictions, loading, error, success,
                   modelInfo, isDragging, reads, calls>>

\* the catch block of lines 43-45 calling setError besides logging
HealthParsed_SurfacesError(data) ==
    /\ health = "parsing"
    /\ health' = "done"
    /\ modelInfo' = IF data # Null THEN data ELSE modelInfo
    /\ error' = IF data # Null THEN error ELSE Some("Failed to fetch model info")
    /\ UNCHANGED selected
    /\ last' = Step("HealthParsed", Null, Null)
    /\ UNCHANGED <<image, preview, predictions, loading, success,
                   isDragging, reads, calls>>

\* lines 41-45: the body parses and is stored (data non-null), or
\* response.json() rejects and the catch block logs it (data = Null)
HealthParsed(data) ==
    /\ health = "parsing"
    /\ health' = "done"
    /\ modelInfo' = IF data # Null THEN data ELSE modelInfo
    /\ UNCHANGED selected
    /\ last' = Step("HealthParsed", Null, Null)
    /\ UNCHANGED <<image, preview, predictions, loading, error, success,
                   isDragging, reads, calls>>

\* ------------------------------------------------------------ upload
\* lines 70-71 moved above the checks: every selection clears first
handleImageUpload_ClearsFirst(file) ==
    LET v == Validate(file) IN
    IF v = "invalid-type" THEN
        /\ error' = Some(MsgInvalidType)
        /\ predictions' = <<>>
        /\ UNCHANGED reads
    ELSE IF v = "too-large" THEN
        /\ error' = Some(MsgTooLarge)
        /\ predictions' = <<>>
        /\ UNCHANGED reads
    ELSE
        /\ Len(reads) < MaxReads
        /\ error' = Null
        /\ predictions' = <<>>
        /\ reads' = Append(reads, file)

\* lines 48-79, file non-null; what it does to error, predictions and reads
handleImageUpload(file) ==
    LET v == Validate(file) IN
    IF v = "invalid-type" THEN
        /\ error' = Some(MsgInvalidType)
        /\ UNCHANGED <<predictions, reads>>
    ELSE IF v = "too-large" THEN
        /\ error' = Some(MsgTooLarge)
        /\ UNCHANGED <<predictions, reads>>
    ELSE
        /\ Len(reads) < MaxReads
        /\ error' = Null
        /\ predictions' = <<>>
        /\ reads' = Append(reads, file)

\* the calls suspended in handleSubmit, marked once the submission they
\* belong to has been reset or replaced (history, read by no handler)
Supersede(cs) == [i \in DOMAIN cs |-> [cs[i] EXCEPT !.superseded = TRUE]]

Accepted(f) == f # Null /\ Validate(Get(f)) = "accepted"

handleDragOver ==
    /\ isDragging' = TRUE
    /\ UNCHANGED selected
    /\ last' = Step("handleDragOver", Null, Null)
    /\ UNCHANGED <<image, preview, predictions, loading, error, success,
                   modelInfo, reads, calls, health>>

handleDragLeave ==
    /\ isDragging' = FALSE
    /\ UNCHANGED selected
    /\ last' = Step("handleDragLeave", Null, Null)
    /\ UNCHANGED <<image, preview, predictions, loading, error, success,
                   modelInfo, reads, calls, health>>

\* lines 90-95; f is event.dataTransfer.files[0], Null when there is none
handleDrop(f) ==
    /\ isDragging' = FALSE
    /\ IF f # Null THEN handleImageUpload(Get(f))
       ELSE UNCHANGED <<error, predictions, reads>>
    /\ calls' = IF Accepted(f) THEN Supersede(calls) ELSE calls
    /\ selected' = IF Accepted(f) THEN f ELSE selected
    /\ last' = Step("handleDrop", f, Null)
    /\ UNCHANGED <<image, preview, loading, success, modelInfo, health>>

\* lines 97-100; f is event.target.files[0]
handleFileInput(f) ==
    /\ IF f # Null THEN handleImageUpload(Get(f))
       ELSE UNCHANGED <<error, predictions, reads>>
    /\ calls' = IF Accepted(f) THEN Supersede(calls) ELSE calls
    /\ selected' = IF Accepted(f) THEN f ELSE selected
    /\ last' = Step("handleFileInput", f, Null)
    /\ UNCHANGED <<image, preview, loading, success, modelInfo, isDragging,
                   health>>

\* reader.onload without line 76, setImage(file)
PreviewLoaded_NoImage(i) ==
    /\ i \in DOMAIN reads
    /\ preview' = Some(DataURL(reads[i]))
    /\ reads' = Remove(reads, i)
    /\ selected' = IF Len(reads) = 1 THEN Null ELSE selected
    /\ last' = Step("PreviewLoaded", Some(reads[i]), Null)
    /\ UNCHANGED <<image, predictions, loading, error, success, modelInfo,
                   isDragging, calls, health>>

\* lines 74-77: reader.onload of the i-th pending preview read
PreviewLoaded(i) ==
    /\ i \in DOMAIN reads
    /\ preview' = Some(DataURL(reads[i]))
    /\ image' = Some(reads[i])
    /\ reads' = Remove(reads, i)
    /\ selected' = IF Len(reads) = 1 THEN Null ELSE selected
    /\ last' = Step("PreviewLoaded", Some(reads[i]), Null)
    /\ UNCHANGED <<predictions, loading, error, success, modelInfo,
                   isDragging, calls, health>>

\* the i-th pending preview read fails: the reader has no onerror handler
PreviewFailed(i) ==
    /\ i \in DOMAIN reads
    /\ reads' = Remove(reads, i)
    /\ selected' = Null
    /\ last' = Step("PreviewFailed", Some(reads[i]), Null)
    /\ UNCHANGED <<image, preview, predictions, loading, error, success,
                   modelInfo, isDragging, calls, health>>

\* ------------------------------------------------------------ submit
\* the submit button without its disabled attribute
SubmitEnabled_Always == TRUE

\* disabled={loading}, line 282
SubmitEnabled == ~loading

\* a suspended call: where it waits, the image it closed over, response.ok
\* once fetch has resolved
Call(pc, file) ==
    [pc |-> pc, file |-> file, ok |-> FALSE, superseded |-> FALSE]

\* handleSubmit with lines 110-111 moved above the guard of line 104
handleSubmit_ClearsFirst ==
    /\ SubmitEnabled
    /\ IF image = Null THEN
          /\ error' = Some(MsgNoImage)
          /\ success' = Null
          /\ UNCHANGED <<loading, calls>>
       ELSE
          /\ Len(calls) < MaxCalls
          /\ loading' = TRUE
          /\ error' = Null
          /\ success' = Null
          /\ calls' = Append(calls, Call("encoding", Get(image)))
    /\ UNCHANGED selected
    /\ last' = Step("handleSubmit", image, Null)
    /\ UNCHANGED <<image, preview, predictions, modelInfo, isDragging, reads,
                   health>>

\* lines 102-116: the synchronous part of handleSubmit, up to the first await
handleSubmit ==
    /\ SubmitEnabled
    /\ IF image = Null THEN
          /\ error' = Some(MsgNoImage)
          /\ UNCHANGED <<loading, success, calls>>
       ELSE
          /\ Len(calls) < MaxCalls
          /\ loading' = TRUE
          /\ error' = Null
          /\ success' = Null
          /\ calls' = Append(calls, Call("encoding", Get(image)))
    /\ UNCHANGED selected
    /\ last' = Step("handleSubmit", image, Null)
    /\ UNCHANGED <<image, preview, predictions, modelInfo, isDragging, reads,
                   health>>

\* the catch block without the finally block of lines 148-150
Catch_NoFinally(i, msg) ==
    /\ error' = Some(OrElse(msg, MsgGeneric))
    /\ UNCHANGED loading
    /\ calls' = Remove(calls, i)

\* the catch block storing the fallback text whatever err.message is
Catch_AlwaysGeneric(i, msg) ==
    /\ error' = Some(MsgGeneric)
    /\ loading' = FALSE
    /\ calls' = Remove(calls, i)

\* lines 146-150: the catch block with err.message = msg (Null when err has
\* none), then the finally block, ending the i-th call
Catch(i, msg) ==
    /\ error' = Some(OrElse(msg, MsgGeneric))
    /\ loading' = FALSE
    /\ calls' = Remove(calls, i)

\* line 117: the read of line 116 completes and line 121 issues the request
EncodeLoaded(i) ==
    /\ i \in DOMAIN calls
    /\ calls[i].pc = "encoding"
    /\ calls' = [calls EXCEPT ![i].pc = "fetching"]
    /\ UNCHANGED selected
    /\ last' = Step("EncodeLoaded", Some(calls[i].file), Null)
    /\ UNCHANGED <<image, preview, predictions, loading, error, success,
                   modelInfo, isDragging, reads, health>>

\* the read fails with no reader.onerror set, as for the preview reader:
\* the promise of line 114 never settles
EncodeFailed_Unhandled(i) ==
    /\ i \in DOMAIN calls
    /\ calls[i].pc = "encoding"
    /\ UNCHANGED selected
    /\ last' = Step("EncodeFailed", Some(calls[i].file), Null)
    /\ UNCHANGED <<image, preview, predictions, loading, error, success,
                   modelInfo, isDragging, reads, calls, health>>

\* line 118: the read fails and rejects with the reader's ProgressEvent,
\* which has no message
EncodeFailed(i) ==
    /\ i \in DOMAIN calls
    /\ calls[i].pc = "encoding"
    /\ Catch(i, Null)
    /\ UNCHANGED selected
    /\ last' = Step("EncodeFailed", Some(calls[i].file), Null)
    /\ UNCHANGED <<image, preview, predictions, success, modelInfo,
                   isDragging, reads, health>>

\* line 121: fetch resolves with the response's status line and headers
\* (ok is response.ok); line 130 starts reading the body
FetchResolved(i, ok) ==
    /\ i \in DOMAIN calls
    /\ calls[i].pc = "fetching"
    /\ calls' = [calls EXCEPT ![i].pc = "parsing", ![i].ok = ok]
    /\ UNCHANGED selected
    /\ last' = Step("FetchResolved", Some(calls[i].file), Null)
    /\ UNCHANGED <<image, preview, predictions, loading, error, success,
                   modelInfo, isDragging, reads, health>>

\* a rejected fetch handled by running the submission again from line 114
FetchRejected_Retries(i) ==
    /\ i \in DOMAIN calls
    /\ calls[i].pc = "fetching"
    /\ calls' = [calls EXCEPT ![i].pc = "encoding"]
    /\ UNCHANGED selected
    /\ last' = Step("FetchRejected", Some(calls[i].file), Null)
    /\ UNCHANGED <<image, preview, predictions, loading, error, success,
                   modelInfo, isDragging, reads, health>>

\* line 121: fetch rejects (the request could not be completed)
FetchRejected(i) ==
    /\ i \in DOMAIN calls
    /\ calls[i].pc = "fetching"
    /\ Catch(i, Some(MsgFetchRejected))
    /\ UNCHANGED selected
    /\ last' = Step("FetchRejected", Some(calls[i].file), Null)
    /\ UNCHANGED <<image, preview, predictions, success, modelInfo,
                   isDragging, reads, health>>

\* line 130: response.json() rejects on a body that is not JSON
JsonRejected(i) ==
    /\ i \in DOMAIN calls
    /\ calls[i].pc = "parsing"
    /\ Catch(i, Some(MsgJsonRejected))
    /\ UNCHANGED selected
    /\ last' = Step("JsonRejected", Some(calls[i].file), Null)
    /\ UNCHANGED <<image, preview, predictions, success, modelInfo,
                   isDragging, reads, health>>

\* lines 130-150: response.json() resolves with data = body and the rest of
\* handleSubmit runs
JsonParsed(i, body) ==
    /\ i \in DOMAIN calls
    /\ calls[i].pc = "parsing"
    /\ body \in BodiesOf(calls[i].ok)
    /\ LET r == Interpret(Response(calls[i].ok, body)) IN
          /\ predictions' = IF r.predictions # Null THEN Get(r.predictions)
                            ELSE predictions
          /\ success' = IF r.success # Null THEN r.success ELSE success
          /\ error' = IF r.thrown # Null THEN Some(OrElse(r.thrown, MsgGeneric))
                      ELSE error
          /\ loading' = FALSE
          /\ calls' = Remove(calls, i)
    /\ UNCHANGED selected
    /\ last' = Step("JsonParsed", Some(calls[i].file),
                    Some(Response(calls[i].ok, body)))
    /\ UNCHANGED <<image, preview, modelInfo, isDragging, reads, health>>

\* ------------------------------------------------------------ reset
\* handleReset without line 158, setSuccess(null)
handleReset_KeepsSuccess ==
    /\ image' = Null
    /\ preview' = Null
    /\ predictions' = <<>>
    /\ error' = Null
    /\ calls' = Supersede(calls)
    /\ selected' = Null
    /\ last' = Step("handleReset", Null, Null)
    /\ UNCHANGED <<loading, success, modelInfo, isDragging, reads, health>>

\* lines 153-158
handleReset ==
    /\ image' = Null
    /\ preview' = Null
    /\ predictions' = <<>>
    /\ error' = Null
    /\ success' = Null
    /\ calls' = Supersede(calls)
    /\ selected' = Null
    /\ last' = Step("handleReset", Null, Null)
    /\ UNCHANGED <<loading, modelInfo, isDragging, reads, health>>

\* ------------------------------------------------------------ specification
OptFiles == {Null} \cup {Some(f) : f \in Files}

\* the history counters: a step that is no submission and issues no request,
\* a call of handleSubmit (a submission when an image is stored), and the
\* step that issues the request of line 121
NoCount == UNCHANGED <<submits, requests>>
CountSubmit ==
    /\ IF image # Null
       THEN submits < MaxSubmits /\ submits' = submits + 1
       ELSE UNCHANGED submits
    /\ UNCHANGED requests
CountRequest == requests' = requests + 1 /\ UNCHANGED submits

Next ==
    \/ \E ok \in BOOLEAN : HealthFetched(ok) /\ NoCount
    \/ \E d \in {Null} \cup {Some(x) : x \in HealthData} :
          HealthParsed(d) /\ NoCount
    \/ handleDragOver /\ NoCount
    \/ handleDragLeave /\ NoCount
    \/ \E f \in OptFiles : handleDrop(f) /\ NoCount
    \/ \E f \in OptFiles : handleFileInput(f) /\ NoCount
    \/ \E i \in 1..MaxReads : PreviewLoaded(i) /\ NoCount
    \/ \E i \in 1..MaxReads : PreviewFailed(i) /\ NoCount
    \/ handleSubmit /\ NoCount
    \/ \E i \in 1..MaxCalls : EncodeLoaded(i) /\ NoCount
    \/ \E i \in 1..MaxCalls : EncodeFailed(i) /\ NoCount
    \/ \E i \in 1..MaxCalls, ok \in BOOLEAN : FetchResolved(i, ok) /\ NoCount
    \/ \E i \in 1..MaxCalls : FetchRejected(i) /\ NoCount
    \/ \E i \in 1..MaxCalls : JsonRejected(i) /\ NoCount
    \/ \E i \in 1..MaxCalls, b \in Bodies \cup ErrorBodies :
          JsonParsed(i, b) /\ NoCount
    \/ handleReset /\ NoCount

Spec == Init /\ [][Next]_vars

\* what the component renders: the drop zone and the file input while there
\* is no preview (lines 231-262), the reset and submit buttons while there is
\* one (lines 221-228 and 263-297)
DropZoneRendered == preview = Null
ButtonsRendered == preview # Null

\* the handlers as the rendered controls can invoke them
NextUI ==
    \/ \E ok \in BOOLEAN : HealthFetched(ok) /\ NoCount
    \/ \E d \in {Null} \cup {Some(x) : x \in HealthData} :
          HealthParsed(d) /\ NoCount
    \/ DropZoneRendered /\ handleDragOver /\ NoCount
    \/ DropZoneRendered /\ handleDragLeave /\ NoCount
    \/ \E f \in OptFiles : DropZoneRendered /\ handleDrop(f) /\ NoCount
    \/ \E f \in OptFiles : DropZoneRendered /\ handleFileInput(f) /\ NoCount
    \/ \E i \in 1..MaxReads : PreviewLoaded(i) /\ NoCount
    \/ \E i \in 1..MaxReads : PreviewFailed(i) /\ NoCount
    \/ ButtonsRendered /\ handleSubmit /\ NoCount
    \/ \E i \in 1..MaxCalls : EncodeLoaded(i) /\ NoCount
    \/ \E i \in 1..MaxCalls : EncodeFailed(i) /\ NoCount
    \/ \E i \in 1..MaxCalls, ok \in BOOLEAN : FetchResolved(i, ok) /\ NoCount
    \/ \E i \in 1..MaxCalls : FetchRejected(i) /\ NoCount
    \/ \E i \in 1..MaxCalls : JsonRejected(i) /\ NoCount
    \/ \E i \in 1..MaxCalls, b \in Bodies \cup ErrorBodies :
          JsonParsed(i, b) /\ NoCount
    \/ ButtonsRendered /\ handleReset /\ NoCount

SpecUI == Init /\ [][NextUI]_vars

\* the handlers of NextUI with the submissions and the requests counted
NextCounted ==
    \/ \E ok \in BOOLEAN : HealthFetched(ok) /\ NoCount
    \/ \E d \in {Null} \cup {Some(x) : x \in HealthData} :
          HealthParsed(d) /\ NoCount
    \/ DropZoneRendered /\ handleDragOver /\ NoCount
    \/ DropZoneRendered /\ handleDragLeave /\ NoCount
    \/ \E f \in OptFiles : DropZoneRendered /\ handleDrop(f) /\ NoCount
    \/ \E f \in OptFiles : DropZoneRendered /\ handleFileInput(f) /\ NoCount
    \/ \E i \in 1..MaxReads : PreviewLoaded(i) /\ NoCount
    \/ \E i \in 1..MaxReads : PreviewFailed(i) /\ NoCount
    \/ ButtonsRendered /\ handleSubmit /\ CountSubmit
    \/ \E i \in 1..MaxCalls : EncodeLoaded(i) /\ CountRequest
    \/ \E i \in 1..MaxCalls : EncodeFailed(i) /\ NoCount
    \/ \E i \in 1..MaxCalls, ok \in BOOLEAN : FetchResolved(i, ok) /\ NoCount
    \/ \E i \in 1..MaxCalls : FetchRejected(i) /\ NoCount
    \/ \E i \in 1..MaxCalls : JsonRejected(i) /\ NoCount
    \/ \E i \in 1..MaxCalls, b \in Bodies \cup ErrorBodies :
          JsonParsed(i, b) /\ NoCount
    \/ ButtonsRendered /\ handleReset /\ NoCount

SpecCounted == Init /\ [][NextCounted]_vars

\* a started file read or request completes or fails: the continuations of a
\* suspended call are eventually run
Continue ==
    \E i \in 1..MaxCalls :
        \/ EncodeLoaded(i) \/ EncodeFailed(i)
        \/ \E ok \in BOOLEAN : FetchResolved(i, ok)
        \/ FetchRejected(i) \/ JsonRejected(i)
        \/ \E b \in Bodies \cup ErrorBodies : JsonParsed(i, b)

SpecFair == SpecUI /\ WF_vars(Continue /\ NoCount)

\* the validator alone: one file at a time, drawn from every declared type
\* and size, through the file picker
SelectFile(f) == reads = <<>> /\ handleFileInput(Some(f))

NextValidator ==
    \/ \E f \in AllFiles : SelectFile(f) /\ NoCount
    \/ \E i \in 1..MaxReads : PreviewLoaded(i) /\ NoCount

SpecValidator == Init /\ [][NextValidator]_vars

\* ------------------------------------------------------------ claims
Uploads == {"handleDrop", "handleFileInput"}

\* the step that ends a suspended call
Completes(i) == i \in DOMAIN calls /\ calls' = Remove(calls, i)

\* C1: once handleReset has run or a new file has been accepted while a call
\* of handleSubmit is suspended, the step that ends that call (its response
\* or its failure) changes none of predictions, success and error.
C1_StaleResponseDiscarded ==
    [][\A i \in DOMAIN calls :
          (calls[i].superseded /\ Completes(i))
              => UNCHANGED <<predictions, success, error>>]_vars

\* C2: at most one call of handleSubmit is in flight, and loading is true
\* exactly while one is.
C2_SingleFlight ==
    /\ Len(calls) <= 1
    /\ loading <=> (calls # <<>>)

\* C2 witness: a call in flight across a reset, waiting for the body
C2_Witness ==
    /\ loading
    /\ Len(calls) = 1
    /\ calls[1].pc = "parsing"
    /\ calls[1].superseded

\* the verdict the validation rules give, first failing rule first
RuleVerdict(f) ==
    IF f.type \notin {"image/jpeg", "image/png", "image/jpg", "image/bmp",
                      "image/gif", "image/webp"}
    THEN "invalid-type"
    ELSE IF f.size > 16777216 THEN "too-large" ELSE "accepted"

\* C3: a selected file of a type outside the six is rejected with the
\* invalid-type message whatever its size; otherwise one larger than
\* 16777216 bytes is rejected with the too-large message; otherwise
\* (16777216 bytes exactly included) it is accepted: the error is cleared
\* and its preview read is started.
C3_ValidationRules ==
    (last.op \in Uploads /\ last.file # Null) =>
        LET f == Get(last.file) IN
        /\ RuleVerdict(f) = "invalid-type" => error = Some(MsgInvalidType)
        /\ RuleVerdict(f) = "too-large" => error = Some(MsgTooLarge)
        /\ RuleVerdict(f) = "accepted" =>
              error = Null /\ reads # <<>> /\ reads[Len(reads)] = f

\* C3 witness: a file failing both rules gets the first rule's message
C3_Witness ==
    /\ last.op \in Uploads
    /\ last.file = Some(File("text/plain", 20971520))
    /\ error = Some(MsgInvalidType)

\* C4: selecting a file that fails validation stores the message of the
\* failed rule and leaves image, preview, predictions, loading, success,
\* modelInfo, the pending reads and the suspended calls (so no read starts
\* and no request is issued) as they were.
C4_RejectedUploadFrame ==
    [][(last'.op \in Uploads /\ last'.file # Null
            /\ RuleVerdict(Get(last'.file)) # "accepted")
          => /\ error' = IF RuleVerdict(Get(last'.file)) = "invalid-type"
                         THEN Some(MsgInvalidType) ELSE Some(MsgTooLarge)
             /\ UNCHANGED <<image, preview, predictions, loading, success,
                            modelInfo, reads, calls, health>>]_vars

\* C4 witness: a rejected selection made with an image, predictions, a
\* pending read and a request in flight all in place
C4_Witness ==
    /\ last.op \in Uploads
    /\ last.file # Null
    /\ RuleVerdict(Get(last.file)) # "accepted"
    /\ image # Null
    /\ predictions # <<>>
    /\ reads # <<>>
    /\ loading

NonIncreasing(ps) ==
    \A i \in 1..(Len(ps) - 1) : ps[i].confidence >= ps[i + 1].confidence

\* the response whose body handleSubmit has just interpreted
Answered == last.op = "JsonParsed"
Answer == Get(last.resp)

\* C5: after a 2xx response with success = true, the stored predictions are
\* ordered non-increasing by confidence, whatever order the service sent.
C5_PredictionsOrdered ==
    (Answered /\ Answer.ok /\ Answer.body.success = Some(TRUE))
        => NonIncreasing(predictions)

\* C6: after a successful response that stored a non-empty, ordered list,
\* the summary names the species and the two-decimal confidence of
\* predictions[0].
C6_SummaryIsFirstPrediction ==
    (Answered /\ success # Null /\ predictions # <<>>
            /\ NonIncreasing(predictions))
        => /\ Get(success).species = predictions[1].species
           /\ Get(success).confidence = toFixed2(predictions[1].confidence)

\* C7: a 2xx response with success = true and an empty predictions list ends
\* with an error message and no success summary.
C7_EmptyListFails ==
    (Answered /\ Answer.ok /\ Answer.body.success = Some(TRUE)
            /\ Answer.body.predictions = <<>>)
        => error # Null /\ success = Null

\* the service reports a failure: a non-2xx status, or success not true
AppFailure(r) == ~r.ok \/ r.body.success # Some(TRUE)

\* C8 as stated: after an application-level failure carrying an error string
\* m, error = m, loading = false and no summary is stored; with no error
\* string the generic message is stored.
C8_ServerMessageStored ==
    (Answered /\ AppFailure(Answer)) =>
        /\ ~loading
        /\ success = Null
        /\ error = IF Answer.body.error # Null THEN Answer.body.error
                   ELSE Some("Prediction failed")

\* C8 as amended: after an application-level failure carrying a non-empty
\* error string m, error = m, loading = false and no summary is stored; with
\* no error string, or an empty one, "Prediction failed" is stored.
C8_NonEmptyServerMessageStored ==
    (Answered /\ AppFailure(Answer)) =>
        /\ ~loading
        /\ success = Null
        /\ error = IF Answer.body.error \notin {Null, Some("")}
                   THEN Answer.body.error
                   ELSE Some("Prediction failed")

\* C8 witness: a non-2xx answer whose message is shown as sent
C8_Witness ==
    /\ Answered
    /\ ~Answer.ok
    /\ Answer.body.error = Some("server busy")
    /\ error = Some("server busy")

\* C9: handleReset leaves image, preview, error and success null and
\* predictions empty, and a handleReset that follows a handleReset changes
\* no state field.
C9_ResetIdempotent ==
    [][last'.op = "handleReset"
          => /\ image' = Null
             /\ preview' = Null
             /\ predictions' = <<>>
             /\ error' = Null
             /\ success' = Null
             /\ last.op = "handleReset"
                   => UNCHANGED <<image, preview, predictions, loading,
                                  error, success, modelInfo, isDragging,
                                  reads, calls, health>>]_vars

\* C9 witness: a second handleReset in a row, with a request in flight
C9_Witness ==
    /\ last.op = "handleReset"
    /\ last.rep
    /\ loading
    /\ reads # <<>>

\* C10: error is non-null only in Failed: never while a request is in
\* flight and never together with a success summary.
C10_ErrorOnlyWhenFailed ==
    error # Null => ~loading /\ success = Null

\* the steps that end a call of handleSubmit, and those that end it in the
\* catch block
Endings == {"EncodeFailed", "FetchRejected", "JsonRejected", "JsonParsed"}
EndedFailed ==
    \/ last.op \in {"EncodeFailed", "FetchRejected", "JsonRejected"}
    \/ Answered /\ Interpret(Answer).thrown # Null

\* C11: whenever handleSubmit has just ended in its catch block (error set),
\* the stored predictions list is empty.
C11_FailedHasNoPredictions ==
    EndedFailed => predictions = <<>>

\* C12: right after any selection of a file, whatever the validation
\* outcome, no predictions and no success summary remain stored.
C12_SelectionClearsResults ==
    (last.op \in Uploads /\ last.file # Null)
        => predictions = <<>> /\ success = Null

\* C13: handleSubmit with no image stored sets error to the no-image message
\* and leaves loading, image, preview, predictions, success, the pending
\* reads and the suspended calls (no read started, no request issued) as
\* they were.
C13_SubmitWithoutImage ==
    [][(last'.op = "handleSubmit" /\ image = Null)
          => /\ error' = Some("Please select an image first")
             /\ UNCHANGED <<image, preview, predictions, loading, success,
                            modelInfo, isDragging, reads, calls, health>>]_vars

\* C13 witness: a submit without an image that left a late summary and its
\* predictions in place
C13_Witness ==
    /\ last.op = "handleSubmit"
    /\ last.file = Null
    /\ image = Null
    /\ error = Some(MsgNoImage)
    /\ success # Null
    /\ predictions # <<>>
    /\ ~loading

\* C15: the steps of fetchModelInfo, whether they succeed or fail and
\* whenever they run, change none of image, preview, predictions, loading,
\* error and success.
C15_ModelInfoFrame ==
    [][last'.op \in {"HealthFetched", "HealthParsed"}
          => UNCHANGED <<image, preview, predictions, loading, error,
                         success>>]_vars

\* C15 witness: the health query fails while a classification is in flight
C15_Witness ==
    /\ last.op = "HealthParsed"
    /\ modelInfo = Null
    /\ loading
    /\ image # Null

\* C17 as stated: after the request could not be completed, or its body
\* could not be parsed, the stored error is the generic fallback.
C17_TransportErrorGeneric ==
    last.op \in {"FetchRejected", "JsonRejected"}
        => error = Some("An error occurred during prediction")

\* C17 as amended: after the request could not be completed, or its body
\* could not be parsed, the stored error is the message of the rejection
\* itself (the runtime's text), and loading is false.
C17_TransportErrorMessage ==
    /\ last.op = "FetchRejected" => error = Some(MsgFetchRejected) /\ ~loading
    /\ last.op = "JsonRejected" => error = Some(MsgJsonRejected) /\ ~loading

\* C17 witness: an unparseable body has just ended a submission
C17_Witness ==
    /\ last.op = "JsonRejected"
    /\ error = Some(MsgJsonRejected)
    /\ image # Null

\* C19: image is non-null exactly when preview is, and the preview is then
\* the data URL of that same file.
C19_ImageAndPreviewTogether ==
    /\ image = Null <=> preview = Null
    /\ image # Null =>
          /\ Get(preview).payload = Get(image)
          /\ Get(preview).mime = Get(image).type

\* C19 witness: a second preview read has replaced the image and preview of
\* the first
C19_Witness ==
    /\ last.op = "PreviewLoaded"
    /\ last.rep
    /\ image = Some(File("image/png", 2097152))
    /\ reads = <<>>

\* C14: with every started read and request completing or failing, loading
\* never stays true; and the step that ends a call of handleSubmit sets
\* loading to false and stores exactly one of the two outcomes: a summary
\* with the error as it was, or an error with no summary.
C14_SubmissionEnds ==
    /\ loading ~> ~loading
    /\ [][last'.op \in Endings
             => /\ ~loading'
                /\ \/ success' # Null /\ success = Null /\ error' = error
                   \/ error' # Null /\ success' = Null]_vars

\* C14 witness: a failed read has ended a submission
C14_Witness ==
    /\ last.op = "EncodeFailed"
    /\ ~loading
    /\ error # Null
    /\ success = Null

\* C16: when the read that encodes the image fails, the submission ends with
\* the generic error message and loading false, and its call is gone
\* without a request having been issued.
C16_EncodeFailure ==
    [][last'.op = "EncodeFailed"
          => /\ error' = Some("An error occurred during prediction")
             /\ ~loading'
             /\ calls' = <<>>
             /\ requests' = requests]_vars

\* C16 witness: the read of a resubmission failed after one request had been
\* issued for the first submission
C16_Witness ==
    /\ last.op = "EncodeFailed"
    /\ error = Some(MsgGeneric)
    /\ submits = 2
    /\ requests = 1

C20_LatestSelectionWins ==
    [][(last'.op = "PreviewLoaded" /\ reads' = <<>> /\ selected # Null)
          => /\ image' = selected
             /\ preview' = Some(DataURL(Get(selected)))]_vars

\* C21: a preview read that completes right after handleReset, with no file
\* selected in between, leaves image and preview null.
C21_ResetStaysEmpty ==
    [][(last.op = "handleReset" /\ last'.op = "PreviewLoaded")
          => image' = Null /\ preview' = Null]_vars

====
